---------------------------- MODULE Spec2Model ----------------------------
(***************************************************************************)
(* A model of gnomad_qc/v3/create_release/prepare_vcf_data_release.py:     *)
(* the construction of the VCF header metadata (populate_info_dict and the *)
(* "_adj" key rename), the flattening of a release-table row into the INFO *)
(* record (make_info_expr, unfurl_nested_annotations) and the driver main. *)
(*                                                                         *)
(* Python strings that the program inspects character by character (field  *)
(* names, labels) are sequences of one-character strings, so that          *)
(* str.replace, iteration over a string and slicing are computed as Python *)
(* computes them.  Values that are only relocated (counts, frequencies,    *)
(* description texts) are TLA+ strings.                                    *)
(***************************************************************************)
EXTENDS Integers, Sequences, FiniteSets, TLC

VARIABLES
    pc,             \* position of main (or "idle" outside a run of main)
    args,           \* the parsed command line flags of main
    INFO_DICT,      \* the module-level dict VCF_INFO_DICT = INFO_DICT (one object)
    AS_FIELDS,      \* the module-level list AS_FIELDS
    arg_dict,       \* a dict object owned by a direct caller of populate_info_dict
    call,           \* arguments and return value of the last populate_info_dict call
    ncalls,         \* number of populate_info_dict calls made so far
    ht,             \* the local variable ht of main: [bound, globals, rows]
    expr_dict,      \* the projection returned by unfurl_nested_annotations
    vcf_info_dict,  \* the local vcf_info_dict of main: a reference ("INFO_DICT") or "unbound"
    header_dict,    \* the pickled header dict, or NoHeader
    exc,            \* the exception propagating out of main's try block, or "none"
    checks_run,     \* whether sanity_check_release_ht has been called
    log_copied,     \* whether the finally block has copied the log
    name,           \* a field name given to the key rename
    renamed         \* the results of applying the key rename to name, once, twice, ...

vars == <<pc, args, INFO_DICT, AS_FIELDS, arg_dict, call, ncalls, ht, expr_dict,
          vcf_info_dict, header_dict, exc, checks_run, log_copied, name, renamed>>

mainVars == <<pc, args, ht, expr_dict, vcf_info_dict, header_dict, exc, checks_run,
              log_copied>>
dictVars == <<INFO_DICT, AS_FIELDS, arg_dict, call, ncalls>>
renameVars == <<name, renamed>>

---------------------------------------------------------------------------
(* Bounds of the model.                                                    *)

\* Longest field name given to the key rename on its own.
MaxLen == 8
\* Number of times the key rename is applied to its own result.
MaxRenames == 2
\* Largest position an index mapping may hold (arrays have 2 entries, so 2 and
\* above, and the negative position, lie outside the array).
MaxIdx == 2
\* Number of direct calls of populate_info_dict.
MaxCalls == 2

---------------------------------------------------------------------------
(* Python helpers: dicts are functions, lists are sequences.               *)

Range(s) == {s[i] : i \in DOMAIN s}

\* A Python dict (and a Hail struct): its keys in insertion order, and the value
\* of each key at the same position.
EmptyDict == [keys |-> <<>>, vals |-> <<>>]

Keys(d) == Range(d.keys)

IndexOf(d, k) == CHOOSE i \in DOMAIN d.keys : d.keys[i] = k

\* d[k], for a key of d.
Get(d, k) == d.vals[IndexOf(d, k)]

\* d[k] = v: a present key keeps its place and takes the new value, a new key is
\* appended.
dict_set(d, k, v) ==
    IF k \in Keys(d)
    THEN [d EXCEPT !.vals[IndexOf(d, k)] = v]
    ELSE [keys |-> Append(d.keys, k), vals |-> Append(d.vals, v)]

\* d1.update(d2): d1[k] = d2[k] for the keys of d2 in their order. An entry of d1
\* with the same key is replaced; nothing is reported. (Here and in the loops
\* below, the test on the intermediate dict only makes TLC compute it before the
\* next step; its outcome never changes the result.)
RECURSIVE dict_update(_, _)
dict_update(d1, d2) ==
    IF d2.keys = <<>> THEN d1
    ELSE LET d == dict_set(d1, Head(d2.keys), Head(d2.vals))
         IN  IF d.keys = <<>> THEN d
             ELSE dict_update(d, [keys |-> Tail(d2.keys), vals |-> Tail(d2.vals)])

\* d.pop(key, None): remove key when present, no error otherwise.
dict_pop(d, key) ==
    IF key \notin Keys(d) THEN d
    ELSE LET i == IndexOf(d, key)
             n == Len(d.keys)
         IN  [keys |-> SubSeq(d.keys, 1, i - 1) \o SubSeq(d.keys, i + 1, n),
              vals |-> SubSeq(d.vals, 1, i - 1) \o SubSeq(d.vals, i + 1, n)]

\* A dict literal / comprehension over the keys ks (in order) with values f[k].
RECURSIVE dict_of(_, _)
dict_of(ks, f) ==
    IF ks = <<>> THEN EmptyDict
    ELSE dict_set(dict_of(SubSeq(ks, 1, Len(ks) - 1), f), ks[Len(ks)], f[ks[Len(ks)]])

\* list.remove(x): drop the first occurrence of x.
RECURSIVE list_remove(_, _)
list_remove(l, x) ==
    IF l = <<>> THEN <<>>
    ELSE IF Head(l) = x THEN Tail(l)
    ELSE <<Head(l)>> \o list_remove(Tail(l), x)

\* s.startswith(p) at position i (1-based).
MatchesAt(s, p, i) == i + Len(p) - 1 <= Len(s) /\ SubSeq(s, i, i + Len(p) - 1) = p

\* p in s
Contains(s, p) == \E i \in 1..(Len(s) + 1) : MatchesAt(s, p, i)

EndsWith(s, p) == Len(s) >= Len(p) /\ SubSeq(s, Len(s) - Len(p) + 1, Len(s)) = p

\* s.replace(old, ""): every non-overlapping occurrence of old, found scanning
\* from the left, is removed.
RECURSIVE str_replace(_, _)
str_replace(s, old) ==
    IF Len(s) < Len(old) THEN s
    ELSE IF SubSeq(s, 1, Len(old)) = old THEN str_replace(SubSeq(s, Len(old) + 1, Len(s)), old)
    ELSE <<Head(s)>> \o str_replace(Tail(s), old)

\* "|".join(xs) and hl.delimit(xs, "|") on a list of strings.
RECURSIVE Delimit(_, _)
Delimit(xs, d) ==
    IF xs = <<>> THEN ""
    ELSE IF Len(xs) = 1 THEN xs[1]
    ELSE xs[1] \o d \o Delimit(Tail(xs), d)

---------------------------------------------------------------------------
(* The key rename of main: i.replace("_adj", "").                          *)

ADJ_TAG == <<"_","a","d","j">>

\* A rename that strips the tag only where it is the suffix of the name.
RemoveAdjSuffix(i) == IF EndsWith(i, ADJ_TAG) THEN SubSeq(i, 1, Len(i) - Len(ADJ_TAG)) ELSE i

RemoveAdjTag(i) == str_replace(i, ADJ_TAG)

\* new_vcf_info_dict = {i.replace("_adj", ""): j for i, j in vcf_info_dict.items()}:
\* the entries are visited in insertion order and a later key that renames to the
\* same name replaces the earlier entry's value.
RECURSIVE RenameInto(_, _)
RenameInto(new, d) ==
    IF d.keys = <<>> THEN new
    ELSE LET n == dict_set(new, RemoveAdjTag(Head(d.keys)), Head(d.vals))
         IN  IF n.keys = <<>> THEN n
             ELSE RenameInto(n, [keys |-> Tail(d.keys), vals |-> Tail(d.vals)])

RenameKeys(d) == RenameInto(EmptyDict, d)

---------------------------------------------------------------------------
(* Module-level configuration (lines 46-121).  The lists and the dict      *)
(* imported from gnomad.utils.vcf are cut down to the entries this file    *)
(* names plus one ordinary entry each; the taxonomies to one subset, two   *)
(* populations and one filtering-allele-frequency population.              *)

\* "".join(cs): the TLA+ string spelled by a sequence of characters.
Str(cs) == Delimit(cs, "")

\* for x in s, with s a Python str: its one-character substrings.
IterStr(s) == [i \in 1..Len(s) |-> <<s[i]>>]

Entry(number, description) == [Number |-> number, Description |-> description]

\* gnomad.utils.vcf as imported, before lines 50-64 edit the lists.
ALLELE_TYPE_FIELDS_imported == <<<<"o","r","i","g","i","n","a","l","_","a","l","l","e","l","e","s">>, <<"v","a","r","i","a","n","t","_","t","y","p","e">>>>
REGION_FLAG_FIELDS_imported == <<<<"d","e","c","o","y">>, <<"l","c","r">>, <<"n","o","n","p","a","r">>>>
SITE_FIELDS_imported == <<<<"F","S">>, <<"B","a","s","e","Q","R","a","n","k","S","u","m">>, <<"S","O","R">>>>
AS_FIELDS_imported == <<<<"A","S","_","F","S">>, <<"A","S","_","B","a","s","e","Q","R","a","n","k","S","u","m">>, <<"A","S","_","S","O","R">>>>
VQSR_FIELDS == <<<<"A","S","_","V","Q","S","L","O","D">>, <<"A","S","_","c","u","l","p","r","i","t">>>>
HISTS == <<<<"g","q","_","h","i","s","t","_","a","l","t">>>>
GROUPS == <<<<"a","d","j">>, <<"r","a","w">>>>
FAF_POPS == <<<<"a","f","r">>>>

INFO_DICT_imported ==
    LET d == [k \in {<<"F","S">>, <<"S","O","R">>, <<"l","c","r">>, <<"n","o","n","p","a","r">>, <<"d","e","c","o","y">>, <<"v","a","r","i","a","n","t","_","t","y","p","e">>} |->
                 Entry("", "gnomad.utils.vcf description of " \o Str(k))]
    IN  dict_of(<<<<"F","S">>, <<"S","O","R">>, <<"l","c","r">>, <<"n","o","n","p","a","r">>, <<"d","e","c","o","y">>, <<"v","a","r","i","a","n","t","_","t","y","p","e">>>>, d)

\* ALLELE_TYPE_FIELDS.remove("original_alleles")
ALLELE_TYPE_FIELDS == list_remove(ALLELE_TYPE_FIELDS_imported, <<"o","r","i","g","i","n","a","l","_","a","l","l","e","l","e","s">>)

\* REGION_FLAG_FIELDS.remove("decoy")
REGION_FLAG_FIELDS == list_remove(REGION_FLAG_FIELDS_imported, <<"d","e","c","o","y">>)

\* MISSING_REGION_FIELDS = "decoy": a str, not a list of field names.
MISSING_REGION_FIELDS == <<"d","e","c","o","y">>

\* SITE_FIELDS.remove("BaseQRankSum"); SITE_FIELDS.remove("SOR")
SITE_FIELDS == list_remove(list_remove(SITE_FIELDS_imported, <<"B","a","s","e","Q","R","a","n","k","S","u","m">>), <<"S","O","R">>)

\* AS_FIELDS.remove("AS_BaseQRankSum"); AS_FIELDS.remove("AS_SOR"): the value of
\* the list once the module is imported.
AS_FIELDS_loaded == list_remove(list_remove(AS_FIELDS_imported, <<"A","S","_","B","a","s","e","Q","R","a","n","k","S","u","m">>), <<"A","S","_","S","O","R">>)

VEP_CSQ_FIELDS == "Allele|Consequence|IMPACT"

VEP_CSQ_HEADER == "Consequence annotations from Ensembl VEP. Format: " \o VEP_CSQ_FIELDS

SEXES == <<<<"X","X">>, <<"X","Y">>>>

SUBSET_LIST == <<<<"n","o","n","_","v","2">>>>

KEEP_POPS == <<<<"a","f","r">>, <<"e","a","s">>>>

POP_NAMES == [p \in {<<"a","f","r">>, <<"e","a","s">>, <<"X","X">>} |->
                 IF p = <<"a","f","r">> THEN "African/African-American"
                 ELSE IF p = <<"e","a","s">> THEN "East Asian" ELSE "Population XX"]

\* POPS = {pop: POP_NAMES[pop] for pop in KEEP_POPS}; POPS["mid"] = "Middle Eastern"
POPS == dict_set(dict_of(KEEP_POPS, POP_NAMES), <<"m","i","d">>, "Middle Eastern")

---------------------------------------------------------------------------
(* gnomad.utils.vcf: the label-group generator and the field-name and      *)
(* description synthesizer (make_label_combos, make_info_dict,             *)
(* make_hist_dict, add_as_info_dict), as section 4.1 and 4.2 describe them.*)

\* A label group: the values of each dimension, <<>> for an absent dimension.
LabelGroup(group, pop, sex) == [group |-> group, pop |-> pop, sex |-> sex]

OrNone(values) == IF values = <<>> THEN << <<>> >> ELSE values

\* "_".join of the parts that are present.
RECURSIVE JoinLabel(_)
JoinLabel(parts) ==
    IF parts = <<>> THEN <<>>
    ELSE LET rest == JoinLabel(Tail(parts))
         IN  IF Head(parts) = <<>> THEN rest
             ELSE IF rest = <<>> THEN Head(parts)
             ELSE Head(parts) \o <<"_">> \o rest

\* make_label_combos: every combination pop_sex_group of the group's values, the
\* population varying slowest.
make_label_combos(label_groups) ==
    LET P == OrNone(label_groups.pop)
        S == OrNone(label_groups.sex)
        G == OrNone(label_groups.group)
        n == Len(P) * Len(S) * Len(G)
    IN  [i \in 1..n |->
            LET p == P[((i - 1) \div (Len(S) * Len(G))) + 1]
                s == S[(((i - 1) \div Len(G)) % Len(S)) + 1]
                g == G[((i - 1) % Len(G)) + 1]
            IN  [label |-> JoinLabel(<<p, s, g>>), pop |-> p, sex |-> s, group |-> g]]

\* prefix = f"{prefix}_" unless it is empty.
SubsetPrefix(prefix) == IF prefix = <<>> THEN <<>> ELSE prefix \o <<"_">>

ComboText(combo, pop_names) ==
    " for"
    \o (IF combo.sex = <<>> THEN "" ELSE " " \o Str(combo.sex))
    \o " samples"
    \o (IF combo.pop = <<>> THEN "" ELSE " of " \o Get(pop_names, combo.pop) \o " ancestry")
    \o (IF combo.group = <<"r","a","w">> THEN ", before removing low-confidence genotypes" ELSE "")

\* The entries make_info_dict generates for one combination.
ComboDict(prefix, pop_names, combo, faf, description_text) ==
    LET p == SubsetPrefix(prefix)
        text == ComboText(combo, pop_names) \o description_text
    IN  IF faf
        THEN dict_set(dict_set(EmptyDict,
                 <<"f","a","f","9","5","-">> \o p \o combo.label,
                 Entry("A", "Filtering allele frequency (95% CI)" \o text)),
                 <<"f","a","f","9","9","-">> \o p \o combo.label,
                 Entry("A", "Filtering allele frequency (99% CI)" \o text))
        ELSE dict_set(dict_set(dict_set(dict_set(EmptyDict,
                 <<"A","C","-">> \o p \o combo.label,
                 Entry("A", "Alternate allele count" \o text)),
                 <<"A","N","-">> \o p \o combo.label,
                 Entry("1", "Total number of alleles" \o text)),
                 <<"A","F","-">> \o p \o combo.label,
                 Entry("A", "Alternate allele frequency" \o text)),
                 <<"n","h","o","m","a","l","t","-">> \o p \o combo.label,
                 Entry("A", "Count of homozygous individuals" \o text))

RECURSIVE CombosDict(_, _, _, _, _)
CombosDict(prefix, pop_names, combos, faf, description_text) ==
    IF combos = <<>> THEN EmptyDict
    ELSE dict_update(ComboDict(prefix, pop_names, Head(combos), faf, description_text),
                     CombosDict(prefix, pop_names, Tail(combos), faf, description_text))

\* make_info_dict(prefix, pop_names, label_groups, faf, description_text)
make_info_dict(prefix, pop_names, label_groups, faf, description_text) ==
    CombosDict(prefix, pop_names, make_label_combos(label_groups), faf, description_text)

\* make_info_dict(prefix, bin_edges, popmax=True, age_hist_data): the eight
\* age-histogram entries and the five popmax entries.
make_info_dict_popmax(prefix, bin_edges, age_hist_data) ==
    LET p == SubsetPrefix(prefix)
        age(kind, what) ==
            Entry("A", "Histogram of ages of " \o kind \o " individuals, " \o what
                       \o "; bin edges are: " \o bin_edges
                       \o "; total number of individuals of any genotype bin: " \o age_hist_data)
        names == <<p \o <<"a","g","e","_","h","i","s","t","_","h","e","t","_","b","i","n","_","f","r","e","q">>, p \o <<"a","g","e","_","h","i","s","t","_","h","e","t","_","b","i","n","_","e","d","g","e","s">>,
                   p \o <<"a","g","e","_","h","i","s","t","_","h","e","t","_","n","_","s","m","a","l","l","e","r">>, p \o <<"a","g","e","_","h","i","s","t","_","h","e","t","_","n","_","l","a","r","g","e","r">>,
                   p \o <<"a","g","e","_","h","i","s","t","_","h","o","m","_","b","i","n","_","f","r","e","q">>, p \o <<"a","g","e","_","h","i","s","t","_","h","o","m","_","b","i","n","_","e","d","g","e","s">>,
                   p \o <<"a","g","e","_","h","i","s","t","_","h","o","m","_","n","_","s","m","a","l","l","e","r">>, p \o <<"a","g","e","_","h","i","s","t","_","h","o","m","_","n","_","l","a","r","g","e","r">>,
                   p \o <<"p","o","p","m","a","x">>, p \o <<"A","C","_","p","o","p","m","a","x">>, p \o <<"A","N","_","p","o","p","m","a","x">>, p \o <<"A","F","_","p","o","p","m","a","x">>,
                   p \o <<"n","h","o","m","a","l","t","_","p","o","p","m","a","x">>>>
        texts == <<age("heterozygous", "bin_freq"), age("heterozygous", "bin_edges"),
                   age("heterozygous", "n_smaller"), age("heterozygous", "n_larger"),
                   age("homozygous", "bin_freq"), age("homozygous", "bin_edges"),
                   age("homozygous", "n_smaller"), age("homozygous", "n_larger"),
                   Entry("A", "Population with maximum AF"),
                   Entry("A", "Allele count in the population with the maximum AF"),
                   Entry("A", "Allele number in the population with the maximum AF"),
                   Entry("A", "Maximum allele frequency across populations"),
                   Entry("A", "Count of homozygous individuals in the population with the maximum AF")>>
    IN  dict_of(names, [n \in Range(names) |->
                           texts[CHOOSE i \in DOMAIN names : names[i] = n]])

\* f"{hist}_raw" for the raw variant of a histogram, hist itself otherwise.
HistName(hist, adj) == IF adj THEN hist ELSE hist \o <<"_","r","a","w">>

HistFieldNames(hist_name) ==
    <<hist_name \o <<"_","b","i","n","_","f","r","e","q">>, hist_name \o <<"_","b","i","n","_","e","d","g","e","s">>,
      hist_name \o <<"_","n","_","s","m","a","l","l","e","r">>, hist_name \o <<"_","n","_","l","a","r","g","e","r">>>>

RECURSIVE HistDict(_, _, _)
HistDict(hists, bin_edges, adj) ==
    IF hists = <<>> THEN EmptyDict
    ELSE LET h == HistName(Head(hists), adj)
             names == HistFieldNames(h)
             text == Str(h) \o (IF adj THEN " calculated on high quality genotypes" ELSE "")
                            \o "; bin edges are: " \o bin_edges
         IN  dict_update(
                 dict_of(names, [n \in Range(names) |-> Entry("A", "Histogram for " \o text)]),
                 HistDict(Tail(hists), bin_edges, adj))

\* make_hist_dict(bin_edges, adj)
make_hist_dict(bin_edges, adj) == HistDict(HISTS, bin_edges, adj)

\* add_as_info_dict(info_dict, as_fields): for each allele-specific field whose
\* site-level field (the name without its first three characters, "AS_") has an
\* entry, an entry derived from it; a field without one is skipped.
RECURSIVE add_as_info_dict(_, _)
add_as_info_dict(info_dict, as_fields) ==
    IF as_fields = <<>> THEN EmptyDict
    ELSE LET field == Head(as_fields)
             site_field == SubSeq(field, 4, Len(field))
             rest == add_as_info_dict(info_dict, Tail(as_fields))
         IN  IF site_field \in Keys(info_dict)
             THEN dict_update(
                      dict_set(EmptyDict, field,
                               Entry("A", "Allele-specific "
                                          \o Get(info_dict, site_field).Description)),
                      rest)
             ELSE rest

---------------------------------------------------------------------------
(* populate_info_dict (lines 128-231).                                     *)

\* for field in MISSING_REGION_FIELDS: vcf_info_dict.pop(field, None)
RECURSIVE PopFields(_, _)
PopFields(d, fields) ==
    IF fields = <<>> THEN d
    ELSE PopFields(dict_pop(d, Head(fields)), Tail(fields))

RemoveMissingRegionFields(vcf_info) == PopFields(vcf_info, IterStr(MISSING_REGION_FIELDS))

\* temp_AS_fields = AS_FIELDS.copy(); temp_AS_fields.extend(["AS_culprit", "AS_VQSLOD"])
temp_AS_fields(as_fields) == as_fields \o <<<<"A","S","_","c","u","l","p","r","i","t">>, <<"A","S","_","V","Q","S","L","O","D">>>>

\* _create_label_groups(pops, sexes, group=["adj"]); the first group takes the
\* enclosing function's groups, to capture the raw fields.
create_label_groups(groups, pops, sexes) ==
    <<LabelGroup(groups, <<>>, <<>>),
      LabelGroup(<<<<"a","d","j">>>>, <<>>, sexes),
      LabelGroup(<<<<"a","d","j">>>>, pops, <<>>),
      LabelGroup(<<<<"a","d","j">>>>, pops, sexes)>>

\* description_text = "" if subset == "" else f" in {subset} subset"
DescriptionText(subset) == IF subset = <<>> THEN "" ELSE " in " \o Str(subset) \o " subset"

\* The dicts one pass of the loop over subset_list hands to vcf_info_dict.update,
\* in order: four label groups, four faf label groups, popmax and age histograms.
SubsetBatches(subset, bin_edges, age_hist_data, groups, pops, faf_pops, sexes) ==
    LET label_groups == create_label_groups(groups, pops.keys, sexes)
        faf_label_groups == create_label_groups(groups, faf_pops, sexes)
    IN  [i \in 1..4 |->
            make_info_dict(subset, pops, label_groups[i], FALSE, DescriptionText(subset))]
        \o [i \in 1..4 |->
            make_info_dict(subset, pops, faf_label_groups[i], TRUE, DescriptionText(subset))]
        \o <<make_info_dict_popmax(subset, bin_edges, Delimit(age_hist_data, "|"))>>

\* Every dict handed to vcf_info_dict.update after the allele-specific entries, in
\* order: the subsets' batches, then the two variant-quality histogram dicts.
RECURSIVE GeneratedBatches(_, _, _, _, _, _, _)
GeneratedBatches(subset_list, bin_edges, age_hist_data, groups, pops, faf_pops, sexes) ==
    IF subset_list = <<>>
    THEN <<make_hist_dict(bin_edges, TRUE), make_hist_dict(bin_edges, FALSE)>>
    ELSE SubsetBatches(Head(subset_list), bin_edges, age_hist_data, groups, pops, faf_pops, sexes)
         \o GeneratedBatches(Tail(subset_list), bin_edges, age_hist_data, groups, pops,
                             faf_pops, sexes)

RECURSIVE UpdateAll(_, _)
UpdateAll(d, batches) ==
    IF batches = <<>> THEN d
    ELSE LET u == dict_update(d, Head(batches))
         IN  IF u.keys = <<>> THEN u ELSE UpdateAll(u, Tail(batches))

\* The contents, on return, of the dict object that info_dict names: vcf_info_dict
\* = info_dict binds the same object, so every pop and update below is made to it,
\* and it is the object returned.
populate_info_dict(bin_edges, age_hist_data, info_dict, as_fields, subset_list, groups, pops, faf_pops, sexes) ==
    LET popped == RemoveMissingRegionFields(info_dict)
        with_as == dict_update(popped, add_as_info_dict(popped, temp_AS_fields(as_fields)))
    IN  UpdateAll(with_as,
                  GeneratedBatches(subset_list, bin_edges, age_hist_data, groups, pops,
                                   faf_pops, sexes))

\* The object a reference names.
Deref(ref) == IF ref = "INFO_DICT" THEN INFO_DICT ELSE arg_dict

\* A call populate_info_dict(bin_edges, age_hist_data, info_dict=ref,
\* subset_list=subset_list) with the other parameters left to their defaults.
CallPopulate(ref, bin_edges, age_hist_data, subset_list) ==
    LET result == populate_info_dict(bin_edges, age_hist_data, Deref(ref), AS_FIELDS,
                                     subset_list, GROUPS, POPS, FAF_POPS, SEXES)
    IN  /\ INFO_DICT' = IF ref = "INFO_DICT" THEN result ELSE INFO_DICT
        /\ arg_dict' = IF ref = "arg_dict" THEN result ELSE arg_dict
        /\ AS_FIELDS' = AS_FIELDS
        /\ call' = [info_dict |-> ref, before |-> Deref(ref), bin_edges |-> bin_edges,
                    age_hist_data |-> age_hist_data, subset_list |-> subset_list,
                    ret |-> ref, raised |-> FALSE]
        /\ ncalls' = ncalls + 1

NoCall == [info_dict |-> "none", before |-> EmptyDict, bin_edges |-> "",
           age_hist_data |-> <<>>, subset_list |-> <<>>, ret |-> "none", raised |-> FALSE]

---------------------------------------------------------------------------
(* populate_info_dict called directly, with arguments of the caller's      *)
(* choice, any number of times up to MaxCalls.                             *)

\* Dicts a caller may own and pass as info_dict.
CallerDicts ==
    {dict_of(<<<<"d","e","c","o","y">>, <<"F","S">>>>,
             [k \in {<<"d","e","c","o","y">>, <<"F","S">>} |-> Entry("", "caller's description of " \o Str(k))]),
     dict_of(<<<<"d">>, <<"F","S">>>>,
             [k \in {<<"d">>, <<"F","S">>} |-> Entry("", "caller's description of " \o Str(k))])}

SubsetLists == {SUBSET_LIST, << <<>> >>, << <<>>, <<"a","f","r">> >>}

BinEdges == {"0|5", "0|10"}

AgeHistData == <<"30", "40">>

InitPopulate ==
    /\ pc = "idle"
    /\ args = [prepare_vcf_ht |-> FALSE, sanity_check |-> FALSE]
    /\ ht = [bound |-> FALSE]
    /\ expr_dict = EmptyDict
    /\ vcf_info_dict = "unbound"
    /\ header_dict = [info |-> EmptyDict, filter |-> EmptyDict, format |-> EmptyDict, saved |-> FALSE]
    /\ exc = "none"
    /\ checks_run = FALSE
    /\ log_copied = FALSE
    /\ INFO_DICT = INFO_DICT_imported
    /\ AS_FIELDS = AS_FIELDS_loaded
    /\ arg_dict \in CallerDicts
    /\ call = NoCall
    /\ ncalls = 0
    /\ name = <<>>
    /\ renamed = <<>>

Populate ==
    /\ ncalls < MaxCalls
    /\ \E ref \in {"INFO_DICT", "arg_dict"}, bin_edges \in BinEdges, subset_list \in SubsetLists :
           CallPopulate(ref, bin_edges, AgeHistData, subset_list)
    /\ UNCHANGED <<mainVars, renameVars>>

NextPopulate == Populate

SpecPopulate == InitPopulate /\ [][NextPopulate]_vars

\* The entries of the batches of the last call, with the batch each comes from.
LastBatches ==
    GeneratedBatches(call.subset_list, call.bin_edges, call.age_hist_data, GROUPS, POPS,
                     FAF_POPS, SEXES)

\* C6: while the info metadata is built, a generated name that already exists with
\* a different description makes the run fail; no entry is silently overwritten or
\* dropped, so every generated (name, description) pair is in the result.
C6_CollisionFailsOrNothingOverwritten ==
    call.ret # "none" =>
        \/ call.raised
        \/ /\ \A i \in DOMAIN LastBatches : \A k \in Keys(LastBatches[i]) :
                  /\ k \in Keys(Deref(call.ret))
                  /\ Get(Deref(call.ret), k) = Get(LastBatches[i], k)
           /\ \A k \in Keys(call.before) \cap Keys(Deref(call.ret)) :
                  Get(Deref(call.ret), k) = Get(call.before, k)

\* C9: populate_info_dict leaves its shared inputs unchanged: the dict passed as
\* info_dict, the module-level INFO_DICT and AS_FIELDS hold after a call what they
\* held before it.
C9_SharedInputsUnchanged ==
    [][INFO_DICT' = INFO_DICT /\ arg_dict' = arg_dict /\ AS_FIELDS' = AS_FIELDS]_vars

\* C10: the dict populate_info_dict returns has no "decoy" key, and the removal
\* step removes no other key of the dict it was given.
C10_DecoyRemovedOnly ==
    call.ret # "none" =>
        /\ <<"d","e","c","o","y">> \notin Keys(Deref(call.ret))
        /\ Keys(call.before) \ Keys(Deref(call.ret)) \subseteq {<<"d","e","c","o","y">>}

---------------------------------------------------------------------------
(* The release table read by main.  A table holds its globals and a set of *)
(* rows; the rows differ in the contig of their locus and in the frequency *)
(* array, the globals in the two index mappings.                           *)

\* A missing (NA) value of a Hail expression.
MISSING == "<missing>"

FreqStruct(ac, an, af, hom) == [AC |-> ac, AN |-> an, AF |-> af, homozygote_count |-> hom]

\* Frequency arrays a row may hold: two and three strata.
FreqArrays ==
    {<<FreqStruct("10", "100", "0.1", "2"), FreqStruct("4", "50", "0.08", "0")>>,
     <<FreqStruct("1", "20", "0.05", "0"), FreqStruct("0", "0", MISSING, "0"),
       FreqStruct("7", "70", "0.1", "1")>>}

FafArray == <<[faf95 |-> "0.07", faf99 |-> "0.06"], [faf95 |-> "0.01", faf99 |-> "0.005"]>>

Hist(freqs, edges, smaller, larger) ==
    [bin_freq |-> freqs, bin_edges |-> edges, n_smaller |-> smaller, n_larger |-> larger]

Contigs == {"chr1", "chrY", "chrM"}

\* Labels the index mappings of the model may hold.
FreqLabels == <<<<"a","f","r","_","a","d","j">>, <<"e","a","s","_","a","d","j">>, <<"X","X","_","a","d","j">>>>
FafLabels == <<<<"a","f","r","_","a","d","j">>>>

\* Positions an index mapping may hold; the table's provider is trusted, not checked.
IdxRange == (-1)..MaxIdx

\* Positions of the filtering-allele-frequency mapping: the first element and the
\* first position past the end of the array.
FafIdxRange == {0, Len(FafArray)}

RECURSIVE Restrict(_, _)
Restrict(seq, S) ==
    IF seq = <<>> THEN <<>>
    ELSE IF Head(seq) \in S THEN <<Head(seq)>> \o Restrict(Tail(seq), S)
    ELSE Restrict(Tail(seq), S)

\* Every mapping from some of the labels to positions.
IndexDicts(labels, positions) ==
    UNION {{dict_of(Restrict(labels, S), f) : f \in [S -> positions]} :
               S \in SUBSET Range(labels)}

StructOf(fields, value) == dict_of(fields, [f \in Range(fields) |-> value])

Row(contig, freq) ==
    [contig |-> contig,
     allele_info |-> StructOf(ALLELE_TYPE_FIELDS_imported, "snv"),
     region_flag |-> StructOf(<<<<"l","c","r">>>>, "false"),
     info |-> StructOf(SITE_FIELDS_imported \o AS_FIELDS_imported, "1.5"),
     vqsr |-> StructOf(VQSR_FIELDS, "2.5"),
     qual_hists |-> StructOf(HISTS, Hist(<<"3", "4">>, <<"0", "5", "10">>, "0", "1")),
     raw_qual_hists |-> StructOf(HISTS, Hist(<<"5", "6">>, <<"0", "5", "10">>, "0", "2")),
     freq |-> freq,
     faf |-> FafArray,
     popmax |-> [pop |-> "afr", AC |-> "10", AN |-> "100", AF |-> "0.1",
                 homozygote_count |-> "2"],
     age_hist_het |-> Hist(<<"1", "2">>, <<"30", "40", "50">>, "0", "0"),
     age_hist_hom |-> Hist(<<"0", "1">>, <<"30", "40", "50">>, "0", "0"),
     vep |-> << <<"T", "missense_variant", "MODERATE">> >>,
     filters |-> "PASS",
     rsid |-> "rs1",
     extra |-> EmptyDict,
     err |-> FALSE]

ReleaseTables ==
    {[bound |-> TRUE,
      globals |-> [freq_index_dict |-> F, faf_index_dict |-> G,
                   age_distribution |-> AgeHistData, vep_csq_header |-> MISSING,
                   hist_bin_edges |-> "0|5|10"],
      rows |-> {Row(c, freq)}] :
        F \in IndexDicts(FreqLabels, IdxRange), G \in IndexDicts(FafLabels, FafIdxRange),
        c \in Contigs, freq \in FreqArrays}

Unbound == [bound |-> FALSE]

\* hl.filter_intervals(ht, [hl.parse_locus_interval("chrM")], keep=False)
RemoveChrM(t) == [t EXCEPT !.rows = {r \in t.rows : r.contig # "chrM"}]

---------------------------------------------------------------------------
(* make_info_expr (lines 234-275), evaluated on a row t.                   *)

RECURSIVE CopyFields(_, _, _)
\* for field in fields: vcf_info_dict[field] = struct[field]
CopyFields(d, fields, struct) ==
    IF fields = <<>> THEN d
    ELSE LET n == dict_set(d, Head(fields), Get(struct, Head(fields)))
         IN  IF n.keys = <<>> THEN n ELSE CopyFields(n, Tail(fields), struct)

\* hist_name = hist, or f"{hist}_raw" when "raw" in prefix
HistNameFor(hist, prefix) == IF Contains(prefix, <<"r","a","w">>) THEN hist \o <<"_","r","a","w">> ELSE hist

\* The four fields of one histogram: bin_freq and bin_edges delimited by "|".
hist_dict(hist_name, h) ==
    dict_set(dict_set(dict_set(dict_set(EmptyDict,
        hist_name \o <<"_","b","i","n","_","f","r","e","q">>, Delimit(h.bin_freq, "|")),
        hist_name \o <<"_","b","i","n","_","e","d","g","e","s">>, Delimit(h.bin_edges, "|")),
        hist_name \o <<"_","n","_","s","m","a","l","l","e","r">>, h.n_smaller),
        hist_name \o <<"_","n","_","l","a","r","g","e","r">>, h.n_larger)

RECURSIVE HistExprs(_, _, _)
HistExprs(d, hists, t) ==
    IF hists = <<>> THEN d
    ELSE LET hist == Head(hists)
             adj == dict_update(d, hist_dict(HistNameFor(hist, <<"q","u","a","l","_","h","i","s","t","s">>),
                                             Get(t.qual_hists, hist)))
             raw == dict_update(adj, hist_dict(HistNameFor(hist, <<"r","a","w","_","q","u","a","l","_","h","i","s","t","s">>),
                                               Get(t.raw_qual_hists, hist)))
         IN  IF raw.keys = <<>> THEN raw ELSE HistExprs(raw, Tail(hists), t)

\* AS_FIELDS is read from the module-level list when the function runs.
make_info_expr(t) ==
    LET a == CopyFields(EmptyDict, ALLELE_TYPE_FIELDS, t.allele_info)
        r == CopyFields(a, REGION_FLAG_FIELDS, t.region_flag)
        s == CopyFields(r, SITE_FIELDS, t.info)
        v == CopyFields(s, VQSR_FIELDS, t.vqsr)
        as == CopyFields(v, AS_FIELDS, t.info)
    IN  HistExprs(as, HISTS, t)

---------------------------------------------------------------------------
(* unfurl_nested_annotations (lines 278-352).  It returns Hail expressions,*)
(* which are evaluated on the rows only when the table is annotated.       *)

\* t[src][i].fld
IndexExpr(src, i, fld) ==
    [src |-> src, indexed |-> TRUE, idx |-> i, fld |-> fld, delimit |-> FALSE]

\* t[src].fld
FieldExpr(src, fld) ==
    [src |-> src, indexed |-> FALSE, idx |-> 0, fld |-> fld, delimit |-> FALSE]

\* hl.delimit(t[src].fld, delimiter="|")
DelimitExpr(src, fld) ==
    [src |-> src, indexed |-> FALSE, idx |-> 0, fld |-> fld, delimit |-> TRUE]

\* A combo_dict that reads every member at the position after the resolved one.
freq_combo_dict_shifted(combo, i) ==
    dict_set(dict_set(dict_set(dict_set(EmptyDict,
        <<"A","C","-">> \o combo, IndexExpr("freq", i + 1, "AC")),
        <<"A","N","-">> \o combo, IndexExpr("freq", i + 1, "AN")),
        <<"A","F","-">> \o combo, IndexExpr("freq", i + 1, "AF")),
        <<"n","h","o","m","a","l","t","-">> \o combo, IndexExpr("freq", i + 1, "homozygote_count"))

\* combo_dict of the freq loop, for the key combo and the position i
freq_combo_dict(combo, i) ==
    dict_set(dict_set(dict_set(dict_set(EmptyDict,
        <<"A","C","-">> \o combo, IndexExpr("freq", i, "AC")),
        <<"A","N","-">> \o combo, IndexExpr("freq", i, "AN")),
        <<"A","F","-">> \o combo, IndexExpr("freq", i, "AF")),
        <<"n","h","o","m","a","l","t","-">> \o combo, IndexExpr("freq", i, "homozygote_count"))

\* combo_dict of the faf loop
faf_combo_dict(k, i) ==
    dict_set(dict_set(EmptyDict,
        <<"f","a","f","9","5","-">> \o k, IndexExpr("faf", i, "faf95")),
        <<"f","a","f","9","9","-">> \o k, IndexExpr("faf", i, "faf99"))

RECURSIVE UnfurlFreq(_, _)
\* for k, i in freq_idx.items(): expr_dict.update(combo_dict)
UnfurlFreq(expr, freq_idx) ==
    IF freq_idx.keys = <<>> THEN expr
    ELSE LET n == dict_update(expr, freq_combo_dict(Head(freq_idx.keys), Head(freq_idx.vals)))
         IN  IF n.keys = <<>> THEN n
             ELSE UnfurlFreq(n, [keys |-> Tail(freq_idx.keys), vals |-> Tail(freq_idx.vals)])

RECURSIVE UnfurlFaf(_, _)
\* for k, i in faf_idx.items(): expr_dict.update(combo_dict)
UnfurlFaf(expr, faf_idx) ==
    IF faf_idx.keys = <<>> THEN expr
    ELSE LET n == dict_update(expr, faf_combo_dict(Head(faf_idx.keys), Head(faf_idx.vals)))
         IN  IF n.keys = <<>> THEN n
             ELSE UnfurlFaf(n, [keys |-> Tail(faf_idx.keys), vals |-> Tail(faf_idx.vals)])

popmax_combo_dict ==
    dict_set(dict_set(dict_set(dict_set(dict_set(EmptyDict,
        <<"p","o","p","m","a","x">>, FieldExpr("popmax", "pop")),
        <<"A","C","_","p","o","p","m","a","x">>, FieldExpr("popmax", "AC")),
        <<"A","N","_","p","o","p","m","a","x">>, FieldExpr("popmax", "AN")),
        <<"A","F","_","p","o","p","m","a","x">>, FieldExpr("popmax", "AF")),
        <<"n","h","o","m","a","l","t","_","p","o","p","m","a","x">>, FieldExpr("popmax", "homozygote_count"))

age_hist_dict ==
    dict_set(dict_set(dict_set(dict_set(dict_set(dict_set(dict_set(dict_set(EmptyDict,
        <<"a","g","e","_","h","i","s","t","_","h","e","t","_","b","i","n","_","f","r","e","q">>, DelimitExpr("age_hist_het", "bin_freq")),
        <<"a","g","e","_","h","i","s","t","_","h","e","t","_","b","i","n","_","e","d","g","e","s">>, DelimitExpr("age_hist_het", "bin_edges")),
        <<"a","g","e","_","h","i","s","t","_","h","e","t","_","n","_","s","m","a","l","l","e","r">>, FieldExpr("age_hist_het", "n_smaller")),
        <<"a","g","e","_","h","i","s","t","_","h","e","t","_","n","_","l","a","r","g","e","r">>, FieldExpr("age_hist_het", "n_larger")),
        <<"a","g","e","_","h","i","s","t","_","h","o","m","_","b","i","n","_","f","r","e","q">>, DelimitExpr("age_hist_hom", "bin_freq")),
        <<"a","g","e","_","h","i","s","t","_","h","o","m","_","b","i","n","_","e","d","g","e","s">>, DelimitExpr("age_hist_hom", "bin_edges")),
        <<"a","g","e","_","h","i","s","t","_","h","o","m","_","n","_","s","m","a","l","l","e","r">>, FieldExpr("age_hist_hom", "n_smaller")),
        <<"a","g","e","_","h","i","s","t","_","h","o","m","_","n","_","l","a","r","g","e","r">>, FieldExpr("age_hist_hom", "n_larger"))

\* freq_idx = hl.eval(t.freq_index_dict); faf_idx = hl.eval(t.faf_index_dict)
unfurl_nested_annotations(t) ==
    LET freq_idx == t.globals.freq_index_dict
        faf_idx == t.globals.faf_index_dict
        with_freq == UnfurlFreq(EmptyDict, freq_idx)
        with_faf == UnfurlFaf(with_freq, faf_idx)
    IN  dict_update(dict_update(with_faf, popmax_combo_dict), age_hist_dict)

\* Hail's array[i] on a row: an element counted from the end for a negative i
\* within the array, a runtime error of the row's evaluation outside it.
ArrayIndex(arr, i) ==
    IF 0 <= i /\ i < Len(arr) THEN [ok |-> TRUE, v |-> arr[i + 1]]
    ELSE IF -Len(arr) <= i /\ i < 0 THEN [ok |-> TRUE, v |-> arr[Len(arr) + i + 1]]
    ELSE [ok |-> FALSE]

\* What stands for the value of an expression that cannot be evaluated.
EVAL_ERROR == "<error>"

\* The value of an expression on the row t: [ok, v].
EvalExpr(e, t) ==
    LET base == IF e.indexed THEN ArrayIndex(t[e.src], e.idx) ELSE [ok |-> TRUE, v |-> t[e.src]]
    IN  IF ~base.ok THEN [ok |-> FALSE, v |-> EVAL_ERROR]
        ELSE [ok |-> TRUE,
              v |-> IF e.delimit THEN Delimit(base.v[e.fld], "|") ELSE base.v[e.fld]]

RECURSIVE AnnotateStruct(_, _, _)
\* struct.annotate(**exprs) on the row t
AnnotateStruct(struct, exprs, t) ==
    IF exprs.keys = <<>> THEN struct
    ELSE LET n == dict_set(struct, Head(exprs.keys), EvalExpr(Head(exprs.vals), t).v)
         IN  IF n.keys = <<>> THEN n
             ELSE AnnotateStruct(n, [keys |-> Tail(exprs.keys), vals |-> Tail(exprs.vals)], t)

\* Whether evaluating exprs on the row t raises.
EvalFails(exprs, t) == \E j \in DOMAIN exprs.vals : ~EvalExpr(exprs.vals[j], t).ok

---------------------------------------------------------------------------
(* gnomad.utils.vcf.set_female_y_metrics_to_na, vep_struct_to_csq,         *)
(* make_vcf_filter_dict and FORMAT_DICT, as sections 4.5 and 4.6 describe  *)
(* them.                                                                   *)

FEMALE == <<"X","X">>

RECURSIVE FemaleMetrics(_, _)
\* For every field of t.info whose name carries the female marker: the field's
\* value, or missing on a Y-chromosome locus. The result is keyed by field name.
FemaleMetrics(info, t) ==
    IF info.keys = <<>> THEN EmptyDict
    ELSE LET rest == FemaleMetrics([keys |-> Tail(info.keys), vals |-> Tail(info.vals)], t)
         IN  IF Contains(Head(info.keys), FEMALE)
             THEN dict_update(
                      dict_set(EmptyDict, Head(info.keys),
                               IF t.contig = "chrY" THEN MISSING ELSE Head(info.vals)),
                      rest)
             ELSE rest

set_female_y_metrics_to_na(t) == FemaleMetrics(t.info, t)

\* vep_struct_to_csq: each consequence's fields joined by "|".
vep_struct_to_csq(vep) == [j \in DOMAIN vep |-> Delimit(vep[j], "|")]

make_vcf_filter_dict(snv_cutoff, indel_cutoff) ==
    dict_set(EmptyDict, <<"A","S","_","V","Q","S","R">>,
             Entry("", "Failed VQSR filtering thresholds of " \o snv_cutoff \o " for SNPs and "
                       \o indel_cutoff \o " for indels"))

FORMAT_DICT == dict_set(EmptyDict, <<"G","T">>, Entry("1", "Genotype"))

---------------------------------------------------------------------------
(* main (lines 355-461), one action per block of the try statement.  The   *)
(* flags test and verbose change no state the model holds: test binds an   *)
(* unused local, verbose is handed to the sanity checks.                   *)

NoHeader == [info |-> EmptyDict, filter |-> EmptyDict, format |-> EmptyDict, saved |-> FALSE]

InitMain ==
    /\ pc = "start"
    /\ args \in [prepare_vcf_ht : BOOLEAN, sanity_check : BOOLEAN]
    /\ ht = Unbound
    /\ expr_dict = EmptyDict
    /\ vcf_info_dict = "unbound"
    /\ header_dict = NoHeader
    /\ exc = "none"
    /\ checks_run = FALSE
    /\ log_copied = FALSE
    /\ INFO_DICT = INFO_DICT_imported
    /\ AS_FIELDS = AS_FIELDS_loaded
    /\ arg_dict = EmptyDict
    /\ call = NoCall
    /\ ncalls = 0
    /\ name = <<>>
    /\ renamed = <<>>

\* Lines 360-384: read the release table and drop chrM.
ReadTable ==
    /\ pc = "start"
    /\ args.prepare_vcf_ht
    /\ \E t \in ReleaseTables : ht' = RemoveChrM(t)
    /\ pc' = "populate"
    /\ UNCHANGED <<args, expr_dict, vcf_info_dict, header_dict, exc, checks_run, log_copied,
                   dictVars, renameVars>>

\* Line 360, prepare_vcf_ht not set: the block is skipped and ht stays unbound.
SkipPrepare ==
    /\ pc = "start"
    /\ ~args.prepare_vcf_ht
    /\ pc' = "sanity"
    /\ UNCHANGED <<args, ht, expr_dict, vcf_info_dict, header_dict, exc, checks_run,
                   log_copied, dictVars, renameVars>>

\* Lines 380-389: vcf_info_dict = populate_info_dict(bin_edges, age_hist_data), every
\* other parameter at its default; the default info_dict is the module-level dict.
PopulateInfoDict ==
    /\ pc = "populate"
    /\ CallPopulate("INFO_DICT", ht.globals.hist_bin_edges, ht.globals.age_distribution,
                    SUBSET_LIST)
    /\ vcf_info_dict' = "INFO_DICT"
    /\ pc' = "construct"
    /\ UNCHANGED <<args, ht, expr_dict, header_dict, exc, checks_run, log_copied, renameVars>>

\* ht.locus.in_x_nonpar() | ht.locus.in_y_nonpar(), for the loci of the model
InNonPar(t) == IF t.contig = "chrY" THEN "true" ELSE "false"

\* Lines 391-406: the nonpar flag, then info = hl.struct(**make_info_expr(ht)).
ConstructInfoRow(t) ==
    LET flagged == [t EXCEPT !.region_flag = dict_set(t.region_flag, <<"n","o","n","p","a","r">>, InNonPar(t))]
    IN  [flagged EXCEPT !.info = make_info_expr(flagged)]

ConstructInfo ==
    /\ pc = "construct"
    /\ ht' = [ht EXCEPT !.rows = {ConstructInfoRow(t) : t \in ht.rows}]
    /\ pc' = "unfurl"
    /\ UNCHANGED <<args, expr_dict, vcf_info_dict, header_dict, exc, checks_run, log_copied,
                   dictVars, renameVars>>

\* Lines 408-411: info = ht.info.annotate(**unfurl_nested_annotations(ht, pops=POPS)).
\* A row on which an expression cannot be evaluated fails when the table is
\* computed, not here.
UnfurlRow(t, exprs) ==
    [t EXCEPT !.info = AnnotateStruct(t.info, exprs, t),
              !.err = t.err \/ EvalFails(exprs, t)]

UnfurlAnnotations ==
    /\ pc = "unfurl"
    /\ LET exprs == unfurl_nested_annotations(ht)
       IN  /\ expr_dict' = exprs
           /\ ht' = [ht EXCEPT !.rows = {UnfurlRow(t, exprs) : t \in ht.rows}]
    /\ pc' = "female_y"
    /\ UNCHANGED <<args, vcf_info_dict, header_dict, exc, checks_run, log_copied, dictVars,
                   renameVars>>

\* struct.annotate(**values)
AnnotateValues(struct, values) == dict_update(struct, values)

\* Line 412: ht = ht.annotate(**set_female_y_metrics_to_na(ht)): the returned
\* fields become fields of the row, beside info.
SetFemaleYRow(t) == [t EXCEPT !.extra = AnnotateValues(t.extra, set_female_y_metrics_to_na(t))]

SetFemaleY ==
    /\ pc = "female_y"
    /\ ht' = [ht EXCEPT !.rows = {SetFemaleYRow(t) : t \in ht.rows}]
    /\ pc' = "vep"
    /\ UNCHANGED <<args, expr_dict, vcf_info_dict, header_dict, exc, checks_run, log_copied,
                   dictVars, renameVars>>

\* Lines 414-417: the vep_csq_header global, vep re-encoded, and copied into info.
ReformatVepRow(t) ==
    LET csq == vep_struct_to_csq(t.vep)
    IN  [t EXCEPT !.vep = csq, !.info = dict_set(t.info, <<"v","e","p">>, csq)]

ReformatVep ==
    /\ pc = "vep"
    /\ ht' = [ht EXCEPT !.globals.vep_csq_header = VEP_CSQ_HEADER,
                     !.rows = {ReformatVepRow(t) : t \in ht.rows}]
    /\ pc' = "select"
    /\ UNCHANGED <<args, expr_dict, vcf_info_dict, header_dict, exc, checks_run, log_copied,
                   dictVars, renameVars>>

\* ht.select("info", "filters", "rsid"): the key (the locus) and the three fields.
SelectRow(t) ==
    [contig |-> t.contig, info |-> t.info, filters |-> t.filters, rsid |-> t.rsid,
     err |-> t.err]

\* Lines 419-422: the select, and vcf_info_dict.update({"vep": ...}) on the object
\* vcf_info_dict names.
SelectFields ==
    /\ pc = "select"
    /\ ht' = [ht EXCEPT !.rows = {SelectRow(t) : t \in ht.rows}]
    /\ INFO_DICT' = dict_update(Deref(vcf_info_dict),
                                dict_set(EmptyDict, <<"v","e","p">>, Entry("", ht.globals.vep_csq_header)))
    /\ pc' = "header"
    /\ UNCHANGED <<args, expr_dict, vcf_info_dict, header_dict, exc, checks_run, log_copied,
                   AS_FIELDS, arg_dict, call, ncalls, renameVars>>

\* Lines 424-445: the filter dict, the renamed info dict, the header and its pickle.
BuildHeader ==
    /\ pc = "header"
    /\ header_dict' =
           [info |-> RenameKeys(Deref(vcf_info_dict)),
            filter |-> dict_set(make_vcf_filter_dict("-2.77", "-1.06"), <<"M","o","n","o","A","l","l","e","l","i","c">>,
                                Entry("", "Samples are all homozygous reference or all homozygous alternate for the variant")),
            format |-> FORMAT_DICT,
            saved |-> TRUE]
    /\ pc' = "sanity"
    /\ UNCHANGED <<args, ht, expr_dict, vcf_info_dict, exc, checks_run, log_copied, dictVars,
                   renameVars>>

\* Lines 447-457: sanity_check_release_ht(ht, ...). The name ht is bound only in the
\* prepare block; the checks compute the table, so a row that cannot be evaluated
\* fails them.
SanityCheck ==
    /\ pc = "sanity"
    /\ args.sanity_check
    /\ IF ~ht.bound
       THEN exc' = "UnboundLocalError" /\ checks_run' = checks_run
       ELSE /\ checks_run' = TRUE
            /\ exc' = IF \E t \in ht.rows : t.err THEN "HailException" ELSE exc
    /\ pc' = "finally"
    /\ UNCHANGED <<args, ht, expr_dict, vcf_info_dict, header_dict, log_copied, dictVars,
                   renameVars>>

SkipSanity ==
    /\ pc = "sanity"
    /\ ~args.sanity_check
    /\ pc' = "finally"
    /\ UNCHANGED <<args, ht, expr_dict, vcf_info_dict, header_dict, exc, checks_run,
                   log_copied, dictVars, renameVars>>

\* Lines 459-461: the finally block copies the log; an exception then leaves main.
Finally ==
    /\ pc = "finally"
    /\ log_copied' = TRUE
    /\ pc' = "done"
    /\ UNCHANGED <<args, ht, expr_dict, vcf_info_dict, header_dict, exc, checks_run,
                   dictVars, renameVars>>

Next ==
    \/ ReadTable
    \/ SkipPrepare
    \/ PopulateInfoDict
    \/ ConstructInfo
    \/ UnfurlAnnotations
    \/ SetFemaleY
    \/ ReformatVep
    \/ SelectFields
    \/ BuildHeader
    \/ SanityCheck
    \/ SkipSanity
    \/ Finally

Spec == InitMain /\ [][Next]_vars

---------------------------------------------------------------------------
(* Properties of main and of the functions it calls.                       *)

\* The unfurled projection exists and the rows still hold the annotation arrays.
Unfurled == pc \in {"female_y", "vep", "select"}

\* The rows are the records main emits: info, filters, rsid.
Emitted == pc \in {"header", "sanity", "finally", "done"} /\ ht.bound

FreqMetrics == {<<"A","C","-">>, <<"A","N","-">>, <<"A","F","-">>, <<"n","h","o","m","a","l","t","-">>}

PopmaxKeys == {<<"p","o","p","m","a","x">>, <<"A","C","_","p","o","p","m","a","x">>, <<"A","N","_","p","o","p","m","a","x">>, <<"A","F","_","p","o","p","m","a","x">>, <<"n","h","o","m","a","l","t","_","p","o","p","m","a","x">>}

AgeHistKeys ==
    {<<"a","g","e","_","h","i","s","t","_","h","e","t","_","b","i","n","_","f","r","e","q">>, <<"a","g","e","_","h","i","s","t","_","h","e","t","_","b","i","n","_","e","d","g","e","s">>, <<"a","g","e","_","h","i","s","t","_","h","e","t","_","n","_","s","m","a","l","l","e","r">>,
     <<"a","g","e","_","h","i","s","t","_","h","e","t","_","n","_","l","a","r","g","e","r">>, <<"a","g","e","_","h","i","s","t","_","h","o","m","_","b","i","n","_","f","r","e","q">>, <<"a","g","e","_","h","i","s","t","_","h","o","m","_","b","i","n","_","e","d","g","e","s">>,
     <<"a","g","e","_","h","i","s","t","_","h","o","m","_","n","_","s","m","a","l","l","e","r">>, <<"a","g","e","_","h","i","s","t","_","h","o","m","_","n","_","l","a","r","g","e","r">>}

InArray(i, arr) == 0 <= i /\ i < Len(arr)

\* C1: once the header is built, the keys of the emitted record's info section are
\* the keys of header_dict["info"]: no name is orphaned on either side.
C1_RecordKeysEqualHeaderKeys ==
    header_dict.saved => \A t \in ht.rows : Keys(t.info) = Keys(header_dict.info)

\* C2: in the record main emits for a Y-chromosome locus, AC, AN, AF and nhomalt of
\* every stratum whose label carries the female marker are missing (stated for the
\* strata resolved to a position inside the array, on rows that evaluate).
C2_FemaleMetricsMissingOnY ==
    Emitted =>
        \A t \in ht.rows : t.contig = "chrY" =>
            \A k \in Keys(ht.globals.freq_index_dict) :
                (Contains(k, FEMALE) /\ Get(ht.globals.freq_index_dict, k) >= 0 /\ ~t.err) =>
                \A m \in FreqMetrics :
                    /\ (m \o k) \in Keys(t.info)
                    /\ Get(t.info, m \o k) = MISSING

\* C3: the projection's keys are exactly AC-, AN-, AF-, nhomalt-k for the labels k of
\* the frequency mapping, faf95-, faf99-k for those of the filtering-allele-frequency
\* mapping, the five popmax keys and the eight age-histogram keys; each frequency
\* key of k reads its member of freq at the mapping's position of k, and a row's
\* field holds that member's value unchanged.
C3_UnfurlKeysAndValues ==
    Unfurled =>
        LET F == ht.globals.freq_index_dict
            G == ht.globals.faf_index_dict
        IN  /\ Keys(expr_dict) =
                   {m \o k : m \in FreqMetrics, k \in Keys(F)}
                   \cup {m \o k : m \in {<<"f","a","f","9","5","-">>, <<"f","a","f","9","9","-">>}, k \in Keys(G)}
                   \cup PopmaxKeys \cup AgeHistKeys
            /\ \A k \in Keys(F) :
                   /\ Get(expr_dict, <<"A","C","-">> \o k) = IndexExpr("freq", Get(F, k), "AC")
                   /\ Get(expr_dict, <<"A","N","-">> \o k) = IndexExpr("freq", Get(F, k), "AN")
                   /\ Get(expr_dict, <<"A","F","-">> \o k) = IndexExpr("freq", Get(F, k), "AF")
                   /\ Get(expr_dict, <<"n","h","o","m","a","l","t","-">> \o k)
                          = IndexExpr("freq", Get(F, k), "homozygote_count")
            /\ \A t \in ht.rows : \A k \in Keys(F) : InArray(Get(F, k), t.freq) =>
                   LET s == t.freq[Get(F, k) + 1]
                   IN  /\ Get(t.info, <<"A","C","-">> \o k) = s.AC
                       /\ Get(t.info, <<"A","N","-">> \o k) = s.AN
                       /\ Get(t.info, <<"A","F","-">> \o k) = s.AF
                       /\ Get(t.info, <<"n","h","o","m","a","l","t","-">> \o k) = s.homozygote_count

\* The example of the specification: {afr_adj: 0, eas_adj: 1} over the two-strata
\* array has been unfurled on a row, giving the eight values and no other
\* frequency-derived field.
C3_ExampleUnfurled ==
    /\ pc = "female_y"
    /\ ht.globals.freq_index_dict = [keys |-> <<<<"a","f","r","_","a","d","j">>, <<"e","a","s","_","a","d","j">>>>, vals |-> <<0, 1>>]
    /\ \E t \in ht.rows :
           /\ t.freq = <<FreqStruct("10", "100", "0.1", "2"), FreqStruct("4", "50", "0.08", "0")>>
           /\ Get(t.info, <<"A","C","-","a","f","r","_","a","d","j">>) = "10"
           /\ Get(t.info, <<"A","N","-","a","f","r","_","a","d","j">>) = "100"
           /\ Get(t.info, <<"A","F","-","a","f","r","_","a","d","j">>) = "0.1"
           /\ Get(t.info, <<"n","h","o","m","a","l","t","-","a","f","r","_","a","d","j">>) = "2"
           /\ Get(t.info, <<"A","C","-","e","a","s","_","a","d","j">>) = "4"
           /\ Get(t.info, <<"A","N","-","e","a","s","_","a","d","j">>) = "50"
           /\ Get(t.info, <<"A","F","-","e","a","s","_","a","d","j">>) = "0.08"
           /\ Get(t.info, <<"n","h","o","m","a","l","t","-","e","a","s","_","a","d","j">>) = "0"
           /\ \A k \in Keys(expr_dict) :
                  (\E m \in FreqMetrics : MatchesAt(k, m, 1)) =>
                      \E m \in FreqMetrics : k \in {m \o <<"a","f","r","_","a","d","j">>, m \o <<"e","a","s","_","a","d","j">>}

\* Every position of the two index mappings lies inside its array on every row.
PositionsValid ==
    \A t \in ht.rows :
        /\ \A j \in DOMAIN ht.globals.freq_index_dict.vals :
               InArray(ht.globals.freq_index_dict.vals[j], t.freq)
        /\ \A j \in DOMAIN ht.globals.faf_index_dict.vals :
               InArray(ht.globals.faf_index_dict.vals[j], t.faf)

\* C7: a position outside its array makes unfurling fail with a configuration error
\* before any per-row projection is built or evaluated.
C7_OutOfRangeFailsBeforeProjection ==
    (Unfurled /\ ~PositionsValid) =>
        /\ exc # "none"
        /\ expr_dict = EmptyDict
        /\ \A t \in ht.rows : ~t.err

\* C8: the two phases are independent: when main is done, the sanity checks have
\* been run if sanity_check is set and the header has been saved if prepare_vcf_ht
\* is set, whatever the other flag.
C8_PhasesIndependent ==
    pc = "done" =>
        /\ args.sanity_check => checks_run
        /\ args.prepare_vcf_ht => header_dict.saved

---------------------------------------------------------------------------
(* The key rename on its own: a name is drawn, and the rename is applied   *)
(* to it and then to its own result.                                       *)

Alphabet == {"_", "a", "d", "j"}

NamesUpTo(n) == UNION {[1..k -> Alphabet] : k \in 0..n}

IdleMain ==
    /\ pc = "idle"
    /\ args = [prepare_vcf_ht |-> FALSE, sanity_check |-> FALSE]
    /\ ht = Unbound
    /\ expr_dict = EmptyDict
    /\ vcf_info_dict = "unbound"
    /\ header_dict = NoHeader
    /\ exc = "none"
    /\ checks_run = FALSE
    /\ log_copied = FALSE

IdleDicts ==
    /\ INFO_DICT = EmptyDict
    /\ AS_FIELDS = <<>>
    /\ arg_dict = EmptyDict
    /\ call = NoCall
    /\ ncalls = 0

InitRename ==
    /\ IdleMain
    /\ IdleDicts
    /\ name \in NamesUpTo(MaxLen)
    /\ renamed = <<>>

ApplyRename ==
    /\ Len(renamed) < MaxRenames
    /\ renamed' = Append(renamed, RemoveAdjTag(IF renamed = <<>> THEN name ELSE renamed[Len(renamed)]))
    /\ UNCHANGED <<name, mainVars, dictVars>>

NextRename == ApplyRename

SpecRename == InitRename /\ [][NextRename]_vars

\* C4: the rename removes "_adj" only where it is the exact suffix of the name:
\* a name ending in "_adj" loses exactly that suffix, and a name that holds
\* "_adj" elsewhere without ending in it is left unchanged.
C4_ExactSuffixOnly ==
    Len(renamed) >= 1 => renamed[1] = RemoveAdjSuffix(name)

\* C5: the rename is idempotent: applied twice it gives what it gives applied once.
C5_RenameIdempotent ==
    Len(renamed) >= 2 => renamed[2] = renamed[1]

===========================================================================
